---------------------------- MODULE Spec2Model ----------------------------
(***************************************************************************)
(* A model of the tendermint-rpc client library:                           *)
(*   - the JSON-RPC response envelope (src/src/response.rs),               *)
(*   - the Client facade's pagination and health-poll loops                *)
(*     (src/src/client.rs),                                                *)
(*   - the subscription Driver, which this source tree only declares       *)
(*     (client.rs, `mod subscription; mod transport;`) and which is        *)
(*     modelled from its design description.                               *)
(* Each component has its own specification; the variables of the other    *)
(* components stay at their idle values.                                   *)
(***************************************************************************)
EXTENDS Integers, Sequences, FiniteSets, TLC

VARIABLES
    \* ---- envelope (response.rs) ----
    frame,              \* the bytes handed to Response::from_string
    decoded,            \* what from_string returned (NotDecoded before the call)
    \* ---- Client::validators, Paging::All (client.rs) ----
    vPc,                \* "idle" | "loop" | "returned"
    vHeight,            \* the `height` argument
    page_num,           \* local `page_num`
    validators,         \* local accumulator `validators`
    vRequests,          \* history: the requests performed, in order
    vResponses,         \* history: the Ok responses received, in order
    vFailure,           \* history: the error of the failed request, if any
    vRet,               \* the call's return value (NoReturn while looping)
    \* ---- Client::wait_until_healthy (client.rs) ----
    hPc,                \* "idle" | "probe" | "sleep" | "ok" | "timed_out"
    timeout,            \* the `timeout` argument, in ms
    attempts_remaining, \* local `attempts_remaining`
    probes,             \* history: number of health() calls made
    sleeps,             \* history: number of time::sleep(poll_interval) calls
    elapsed,            \* history: ms passed since the call began
    \* ---- the subscription Driver (declared in client.rs, lines 3-13) ----
    dState,             \* "Connecting" | "Running" | "Draining" | "Closed"
    pending,            \* PendingRequestTable: RequestId -> slot
    subs,               \* SubscriptionEntry table: query string -> [refcount, channels]
    inbound,            \* inbound frames not yet processed, in arrival order
    fanout,             \* the pushed event being fanned out and the channels still to get it
    nextId,             \* the next fresh RequestId
    hstate,             \* per handle: "new" | "subscribing" | "open" | "dropped" | "ended" | "failed" | "closed"
    hquery,             \* per handle: the canonical query string it subscribed to
    hrecv,              \* per handle: the events its channel was handed, in order
    rstate,             \* per request: "unused" | "pending" | "ok" | "err" | "closed" | "abandoned"
    \* history of the Driver, read by the properties only
    answered,           \* requests the peer has answered
    live,               \* per query: subscribe requests on the wire, not rejected, since the last unsubscribe
    unsubSent,          \* per query: unsubscribe requests sent
    taken,              \* per query: number of the last pushed event the Driver took off the wire
    pushed,             \* per query: number of events the peer has pushed
    joinedAt,           \* per handle: `taken` of its query when its channel was registered
    rdone,              \* per request: how many times its slot was completed
    atDrain,            \* the pending ids and open channels when Draining began
    \* ---- Query and its rendering (query.rs) ----
    query,              \* the Query value being built
    qPrev,              \* history: the Query the last and_* call was made on (None before)
    qRendered,          \* query.to_string() (None until it is called)
    \* ---- one escaped string (query.rs, escape) ----
    sIn,                \* the string given as a String operand or Contains substring
    sUse,               \* "operand" or "contains" ("-" before)
    sOut,               \* the rendering of the operand or condition (None before)
    \* ---- EventType::from_str (query.rs) ----
    etIn,               \* the text parsed
    etOf,               \* the variant the text was rendered from (None for free text)
    etOut               \* the Result of from_str (None before)

envVars    == <<frame, decoded>>
valVars    == <<vPc, vHeight, page_num, validators, vRequests, vResponses, vFailure, vRet>>
healthVars == <<hPc, timeout, attempts_remaining, probes, sleeps, elapsed>>
drvState   == <<dState, pending, subs, inbound, fanout, nextId, hstate, hquery, hrecv, rstate>>
drvHistory == <<answered, live, unsubSent, taken, pushed, joinedAt, rdone, atDrain>>
drvVars    == <<drvState, drvHistory>>
queryVars  == <<query, qPrev, qRendered>>
escVars    == <<sIn, sUse, sOut>>
etVars     == <<etIn, etOf, etOut>>
textVars   == <<queryVars, escVars, etVars>>
vars       == <<envVars, valVars, healthVars, drvVars, textVars>>

notEnv    == <<valVars, healthVars, drvVars, textVars>>
notVal    == <<envVars, healthVars, drvVars, textVars>>
notHealth == <<envVars, valVars, drvVars, textVars>>
notDrv    == <<envVars, valVars, healthVars, textVars>>
notQuery  == <<envVars, valVars, healthVars, drvVars, escVars, etVars>>
notEsc    == <<envVars, valVars, healthVars, drvVars, queryVars, etVars>>
notEt     == <<envVars, valVars, healthVars, drvVars, queryVars, escVars>>

-----------------------------------------------------------------------------
(* Result<T, Error> and Error values.                                      *)

Ok(v)  == [tag |-> "Ok",  val |-> v,    err |-> [code |-> "-", message |-> "-"]]
Err(e) == [tag |-> "Err", val |-> "-",  err |-> e]

\* Error::server_error(msg), Error::parse_error(msg), Error::client_internal_error(msg)
server_error(msg)          == [code |-> "ServerError", message |-> msg]
parse_error(msg)           == [code |-> "ParseError", message |-> msg]
client_internal_error(msg) == [code |-> "ClientInternalError", message |-> msg]

-----------------------------------------------------------------------------
(* The envelope: Wrapper<R> { jsonrpc, id, result: Option<R>,              *)
(* error: Option<Error> }.  An Option is a set with at most one element.   *)

None    == {}
Some(x) == {x}
Unwrap(o) == CHOOSE x \in o : TRUE

\* The version strings a peer may send, and the one this client supports.
Versions          == {"2.0", "1.0", "2.1"}
SupportedVersions == {"2.0"}

\* Version::ensure_supported
ensure_supported(v) ==
    IF v \in SupportedVersions
    THEN Ok("()")
    ELSE Err(server_error("server RPC version unsupported"))

MalformedMessage == "server returned malformatted JSON (no 'result' or 'error')"

\* A plausible slip: `result` inspected before `error`.
into_result_ResultFirst(w) ==
    IF ensure_supported(w.jsonrpc).tag = "Err" THEN Err(ensure_supported(w.jsonrpc).err)
    ELSE IF w.result # None THEN Ok(Unwrap(w.result))
    ELSE IF w.error # None THEN Err(Unwrap(w.error))
    ELSE Err(server_error(MalformedMessage))

\* A plausible slip: the version checked after the payload fields.
into_result_VersionLast(w) ==
    IF w.error # None THEN Err(Unwrap(w.error))
    ELSE IF w.result # None
         THEN IF ensure_supported(w.jsonrpc).tag = "Err"
              THEN Err(ensure_supported(w.jsonrpc).err)
              ELSE Ok(Unwrap(w.result))
    ELSE Err(server_error(MalformedMessage))

\* A plausible slip: a wrapper carrying neither field taken for an empty success.
into_result_EmptyOk(w) ==
    IF ensure_supported(w.jsonrpc).tag = "Err" THEN Err(ensure_supported(w.jsonrpc).err)
    ELSE IF w.error # None THEN Err(Unwrap(w.error))
    ELSE IF w.result # None THEN Ok(Unwrap(w.result))
    ELSE Ok("null")

\* Wrapper::into_result
into_result(w) ==
    IF ensure_supported(w.jsonrpc).tag = "Err" THEN Err(ensure_supported(w.jsonrpc).err)
    ELSE IF w.error # None THEN Err(Unwrap(w.error))
    ELSE IF w.result # None THEN Ok(Unwrap(w.result))
    ELSE Err(server_error(MalformedMessage))

\* The payloads a peer may put in `result` and in `error`.
Results       == {"r1", "r2"}
CarriedErrors == { [code |-> "InternalError", message |-> "e1"],
                   [code |-> "ServerError",   message |-> "e2"] }

\* The byte strings handed to from_string: text that is not a JSON envelope
\* (json = FALSE), or an envelope with each optional field present or omitted.
Frames ==
    [json : BOOLEAN, jsonrpc : Versions, id : {1, 2},
     result : {None} \cup {Some(r) : r \in Results},
     error  : {None} \cup {Some(e) : e \in CarriedErrors}]

\* serde_json::from_slice::<Wrapper<R>>
from_slice(f) ==
    IF f.json
    THEN Ok([jsonrpc |-> f.jsonrpc, id |-> f.id, result |-> f.result, error |-> f.error])
    ELSE Err(parse_error("invalid JSON"))

\* Response::from_string (from_reader is the same over a reader)
from_string(f) ==
    IF from_slice(f).tag = "Err"
    THEN Err(from_slice(f).err)
    ELSE into_result(from_slice(f).val)

NotDecoded == [tag |-> "NotDecoded", val |-> "-", err |-> [code |-> "-", message |-> "-"]]

EnvIdle == frame = [json |-> FALSE, jsonrpc |-> "2.0", id |-> 1, result |-> None, error |-> None]
           /\ decoded = NotDecoded

EnvInit == frame \in Frames /\ decoded = NotDecoded

\* One call of Response::from_string on the frame.
Decode ==
    /\ decoded = NotDecoded
    /\ decoded' = from_string(frame)
    /\ UNCHANGED <<frame, notEnv>>

\* The next frame arrives.
NextFrame ==
    /\ decoded # NotDecoded
    /\ frame' \in Frames
    /\ decoded' = NotDecoded
    /\ UNCHANGED notEnv

-----------------------------------------------------------------------------
(* Client::validators(height, Paging::All), client.rs 154-176.             *)

\* crate::endpoint::validators::DEFAULT_VALIDATORS_PER_PAGE (imported at
\* client.rs:15, used at client.rs:157).  Its value is set in the endpoint
\* module, outside this source tree; the properties only compare against it.
DEFAULT_VALIDATORS_PER_PAGE == 30

\* Exploration bounds of the pagination model.
MaxPages    == 3      \* page requests explored per call
MaxTotal    == 3      \* the largest `total` a response reports

Heights      == {1, 2}
Pages        == { <<>>, <<"va">>, <<"vb">>, <<"va", "vb">> }
PerformErrors == { [code |-> "HttpError", message |-> "connection reset"],
                   [code |-> "ServerError", message |-> "height too high"] }

\* validators::Response as returned by the peer for one page
PageResponses == [block_height : Heights, validators : Pages, total : 0..MaxTotal]

\* `validators.len() as i32`: usize -> i32 keeps the low 32 bits.
as_i32(n) == IF n <= 2147483647 THEN n ELSE (n - 2147483647) - 2147483647 - 2

\* validators::Request::new(Some(height), Some(page_num.into()), Some(per_page))
page_request(h, p) == [height |-> h, page |-> p, per_page |-> DEFAULT_VALIDATORS_PER_PAGE]

\* A plausible slip: the accumulator overwritten by the page.
extend_Overwrite(acc, page) == page

\* validators.extend(response.validators)
extend(acc, page) == acc \o page

\* validators.len() as i32 == response.total
converged(acc, total) == as_i32(Len(acc)) = total

\* validators::Response::new(block_height, validators, total)
Response_new(bh, vals, total) == [block_height |-> bh, validators |-> vals, total |-> total]

\* The call begins: page_num = 1, validators = Vec::new().
ValStart ==
    /\ vPc = "idle"
    /\ \E h \in Heights : vHeight' = h
    /\ vPc' = "loop"
    /\ page_num' = 1
    /\ validators' = <<>>
    /\ UNCHANGED <<vRequests, vResponses, vFailure, vRet, notVal>>

\* One loop iteration whose perform(...) returns Ok(response).
ValPageOk ==
    /\ vPc = "loop"
    /\ page_num <= MaxPages
    /\ \E response \in PageResponses :
         LET acc == extend(validators, response.validators) IN
         /\ vRequests' = Append(vRequests, page_request(vHeight, page_num))
         /\ vResponses' = Append(vResponses, response)
         /\ validators' = acc
         /\ IF converged(acc, response.total)
            THEN /\ vRet' = Ok(Response_new(response.block_height, acc, response.total))
                 /\ vPc' = "returned"
                 /\ UNCHANGED page_num
            ELSE /\ page_num' = page_num + 1
                 /\ UNCHANGED <<vRet, vPc>>
    /\ UNCHANGED <<vHeight, vFailure, notVal>>

\* One loop iteration whose perform(...) returns Err: `?` returns it.
ValPageErr ==
    /\ vPc = "loop"
    /\ page_num <= MaxPages
    /\ \E e \in PerformErrors :
         /\ vFailure' = Some(e)
         /\ vRet' = Err(e)
    /\ vRequests' = Append(vRequests, page_request(vHeight, page_num))
    /\ vPc' = "returned"
    /\ UNCHANGED <<vHeight, page_num, validators, vResponses, notVal>>

ValIdle == /\ vPc = "idle" /\ vHeight = 0 /\ page_num = 0 /\ validators = <<>>
           /\ vRequests = <<>> /\ vResponses = <<>> /\ vFailure = None
           /\ vRet = NotDecoded

-----------------------------------------------------------------------------
(* Client::wait_until_healthy(timeout), client.rs 229-250.                 *)

\* Duration::from_millis(200), in ms
poll_interval == 200

\* Exploration bounds of the health-poll model.
MaxTimeoutMs == 650   \* the largest `timeout` explored, in ms
ProbeMs      == 30    \* how long a slow health() call takes, in ms

ProbeDurations == {0, ProbeMs}

\* timeout.as_millis() / poll_interval.as_millis()
\* A plausible slip: the quotient rounded up.
initial_attempts_RoundUp(t) == (t + poll_interval - 1) \div poll_interval

initial_attempts(t) == t \div poll_interval

\* The call begins.
HealthStart ==
    /\ hPc = "idle"
    /\ \E t \in 0..MaxTimeoutMs :
         /\ timeout' = t
         /\ attempts_remaining' = initial_attempts(t)
    /\ hPc' = "probe"
    /\ UNCHANGED <<probes, sleeps, elapsed, notHealth>>

\* self.health().await returns Ok: the loop condition is false, Ok(()) returned.
HealthProbeOk ==
    /\ hPc = "probe"
    /\ \E d \in ProbeDurations : elapsed' = elapsed + d
    /\ probes' = probes + 1
    /\ hPc' = "ok"
    /\ UNCHANGED <<timeout, attempts_remaining, sleeps, notHealth>>

\* self.health().await returns Err: the loop body up to the sleep.
HealthProbeErr ==
    /\ hPc = "probe"
    /\ \E d \in ProbeDurations : elapsed' = elapsed + d
    /\ probes' = probes + 1
    /\ IF attempts_remaining = 0
       THEN /\ hPc' = "timed_out"
            /\ UNCHANGED attempts_remaining
       ELSE /\ attempts_remaining' = attempts_remaining - 1
            /\ hPc' = "sleep"
    /\ UNCHANGED <<timeout, sleeps, notHealth>>

\* time::sleep(poll_interval).await
HealthSleep ==
    /\ hPc = "sleep"
    /\ elapsed' = elapsed + poll_interval
    /\ sleeps' = sleeps + 1
    /\ hPc' = "probe"
    /\ UNCHANGED <<timeout, attempts_remaining, probes, notHealth>>

HealthIdle == /\ hPc = "idle" /\ timeout = 0 /\ attempts_remaining = 0
              /\ probes = 0 /\ sleeps = 0 /\ elapsed = 0

-----------------------------------------------------------------------------
(* The Router/Driver of one duplex connection.  client.rs declares it      *)
(* (`mod subscription; mod transport;`, WebSocketClientDriver) but its     *)
(* code is not part of this source tree: the state machine below follows   *)
(* the design description, sections 4.3 and 5.  The Driver is one task: it *)
(* handles one command or one inbound frame at a time, and it fans an      *)
(* event out to every channel of the entry before it takes the next one.   *)

\* Exploration bounds of the Driver model.
MaxRequests == 2      \* RequestIds issued on the connection
MaxEvents   == 2      \* events the peer pushes

\* Canonical query strings, and the callers' subscription handles.
Queries == {"tm.event = 'Tx'", "tm.event = 'NewBlock'"}
HandleOrder == <<"h1", "h2">>
Handles == {HandleOrder[i] : i \in DOMAIN HandleOrder}
ReqIds  == 1..MaxRequests

EmptyTable == [x \in {} |-> 0]
Remove(table, key) == [x \in DOMAIN table \ {key} |-> table[x]]

CallSlot            == [kind |-> "call",      query |-> "-", handle |-> "-"]
SubscribeSlot(q, h) == [kind |-> "subscribe", query |-> q,   handle |-> h]

ResponseFrame(id, ok) == [type |-> "response", id |-> id, ok |-> ok,   query |-> "-", n |-> 0]
EventFrame(q, n)      == [type |-> "event",    id |-> 0,  ok |-> TRUE, query |-> q,   n |-> n]

Idle == [ev |-> 0, query |-> "-", targets |-> {}]

\* A plausible slip: requests still accepted while the tables are being drained.
accepting_WhileDraining(state) == state \in {"Running", "Draining"}

\* "No further sends are accepted once Draining begins."
accepting(state) == state = "Running"

\* A plausible slip: the next frame taken while an event is still being fanned out.
ready_Always == TRUE

\* The Driver is free to take its next command or frame.
ready == fanout = Idle

\* Each subscribe call makes a fresh handle: the first one not yet used.
fresh(h) ==
    /\ hstate[h] = "new"
    /\ \A i, j \in DOMAIN HandleOrder : (HandleOrder[j] = h /\ i < j) => hstate[HandleOrder[i]] # "new"

\* "an entry already exists with refcount > 0"
has_entry(q) == q \in DOMAIN subs /\ subs[q].refcount > 0

\* Register one more delivery channel for q (the entry is created at refcount 1).
register(q, h) ==
    IF q \in DOMAIN subs
    THEN [subs EXCEPT ![q] = [refcount |-> @.refcount + 1, channels |-> @.channels \cup {h}]]
    ELSE subs @@ (q :> [refcount |-> 1, channels |-> {h}])

\* A plausible slip: the entry kept at refcount zero instead of being removed.
release_KeepEntry(q, h) ==
    [subs EXCEPT ![q] = [refcount |-> @.refcount - 1, channels |-> @.channels \ {h}]]

\* Decrement q's refcount for handle h; at zero the entry is removed.
release(q, h) ==
    IF subs[q].refcount = 1
    THEN Remove(subs, q)
    ELSE [subs EXCEPT ![q] = [refcount |-> @.refcount - 1, channels |-> @.channels \ {h}]]

Sum(f) == LET RECURSIVE S(_)
              S(D) == IF D = {} THEN 0 ELSE LET x == CHOOSE y \in D : TRUE IN f[x] + S(D \ {x})
          IN S(DOMAIN f)

DrvIdle ==
    /\ dState = "Connecting" /\ pending = EmptyTable /\ subs = EmptyTable
    /\ inbound = <<>> /\ fanout = Idle /\ nextId = 1
    /\ hstate = [h \in Handles |-> "new"] /\ hquery = [h \in Handles |-> "-"]
    /\ hrecv = [h \in Handles |-> <<>>] /\ rstate = [i \in ReqIds |-> "unused"]
    /\ answered = {} /\ live = [q \in Queries |-> {}] /\ unsubSent = [q \in Queries |-> 0]
    /\ taken = [q \in Queries |-> 0] /\ pushed = [q \in Queries |-> 0]
    /\ joinedAt = [h \in Handles |-> 0] /\ rdone = [i \in ReqIds |-> 0]
    /\ atDrain = [pending |-> {}, channels |-> {}]

\* Connecting -> Running
Connect ==
    /\ dState = "Connecting"
    /\ dState' = "Running"
    /\ UNCHANGED <<pending, subs, inbound, fanout, nextId, hstate, hquery, hrecv, rstate,
                   drvHistory, notDrv>>

\* Send path: a caller submits an ordinary request with a fresh RequestId.
Send ==
    /\ accepting(dState) /\ ready
    /\ nextId <= MaxRequests
    /\ nextId' = nextId + 1
    /\ pending' = pending @@ (nextId :> CallSlot)
    /\ rstate' = [rstate EXCEPT ![nextId] = "pending"]
    /\ UNCHANGED <<dState, subs, inbound, fanout, hstate, hquery, hrecv, drvHistory, notDrv>>

\* A send or subscribe submitted after Draining began: the caller gets
\* ConnectionClosed and the Driver's state is left as it was.
Refuse ==
    /\ dState # "Connecting" /\ ~accepting(dState)
    /\ UNCHANGED <<drvVars, notDrv>>

\* Subscribe path, no entry yet: the subscribe request goes on the wire and
\* the entry is created only when its acknowledgement is received.
SubscribeFirst(h, q) ==
    /\ fresh(h) /\ ready
    /\ accepting(dState) /\ ~has_entry(q)
    /\ nextId <= MaxRequests
    /\ nextId' = nextId + 1
    /\ pending' = pending @@ (nextId :> SubscribeSlot(q, h))
    /\ rstate' = [rstate EXCEPT ![nextId] = "pending"]
    /\ live' = [live EXCEPT ![q] = @ \cup {nextId}]
    /\ hstate' = [hstate EXCEPT ![h] = "subscribing"]
    /\ hquery' = [hquery EXCEPT ![h] = q]
    /\ UNCHANGED <<dState, subs, inbound, fanout, hrecv,
                   answered, unsubSent, taken, pushed, joinedAt, rdone, atDrain, notDrv>>

\* Subscribe path, entry present: refcount incremented, channel registered,
\* handle returned at once, no wire traffic.
SubscribeShared(h, q) ==
    /\ fresh(h) /\ ready
    /\ accepting(dState) /\ has_entry(q)
    /\ subs' = register(q, h)
    /\ hstate' = [hstate EXCEPT ![h] = "open"]
    /\ hquery' = [hquery EXCEPT ![h] = q]
    /\ joinedAt' = [joinedAt EXCEPT ![h] = taken[q]]
    /\ UNCHANGED <<dState, pending, inbound, fanout, nextId, hrecv, rstate,
                   answered, live, unsubSent, taken, pushed, rdone, atDrain, notDrv>>

\* Unsubscribe path: the handle is dropped or closed while the Driver runs.
Drop(h) ==
    /\ hstate[h] = "open" /\ ready
    /\ dState = "Running"
    /\ subs' = release(hquery[h], h)
    /\ hstate' = [hstate EXCEPT ![h] = "dropped"]
    /\ IF subs[hquery[h]].refcount = 1
       THEN /\ unsubSent' = [unsubSent EXCEPT ![hquery[h]] = @ + 1]
            /\ live' = [live EXCEPT ![hquery[h]] = {}]
       ELSE UNCHANGED <<unsubSent, live>>
    /\ UNCHANGED <<dState, pending, inbound, fanout, nextId, hquery, hrecv, rstate,
                   answered, taken, pushed, joinedAt, rdone, atDrain, notDrv>>

\* A handle dropped once the Driver no longer takes commands.
DropAfterShutdown(h) ==
    /\ hstate[h] = "open"
    /\ dState \in {"Draining", "Closed"}
    /\ hstate' = [hstate EXCEPT ![h] = "dropped"]
    /\ UNCHANGED <<dState, pending, subs, inbound, fanout, nextId, hquery, hrecv, rstate,
                   drvHistory, notDrv>>

\* Cancellation: the caller abandons an in-flight request; its slot is removed.
Abandon(id) ==
    /\ dState = "Running" /\ ready
    /\ id \in DOMAIN pending /\ pending[id].kind = "call"
    /\ pending' = Remove(pending, id)
    /\ rstate' = [rstate EXCEPT ![id] = "abandoned"]
    /\ rdone' = [rdone EXCEPT ![id] = @ + 1]
    /\ UNCHANGED <<dState, subs, inbound, fanout, nextId, hstate, hquery, hrecv,
                   answered, live, unsubSent, taken, pushed, joinedAt, atDrain, notDrv>>

\* The peer answers a request it was sent (an acknowledgement or an error).
PeerRespond(id, ok) ==
    /\ dState = "Running"
    /\ rstate[id] = "pending" /\ id \notin answered
    /\ answered' = answered \cup {id}
    /\ inbound' = Append(inbound, ResponseFrame(id, ok))
    /\ live' = IF ok THEN live ELSE [q \in Queries |-> live[q] \ {id}]
    /\ UNCHANGED <<dState, pending, subs, fanout, nextId, hstate, hquery, hrecv, rstate,
                   unsubSent, taken, pushed, joinedAt, rdone, atDrain, notDrv>>

\* The peer pushes the next event of a query it holds a subscription for.
PeerPush(q) ==
    /\ dState = "Running"
    /\ live[q] # {}
    /\ Sum(pushed) < MaxEvents
    /\ pushed' = [pushed EXCEPT ![q] = @ + 1]
    /\ inbound' = Append(inbound, EventFrame(q, pushed[q] + 1))
    /\ UNCHANGED <<dState, pending, subs, fanout, nextId, hstate, hquery, hrecv, rstate,
                   answered, live, unsubSent, taken, joinedAt, rdone, atDrain, notDrv>>

\* Receive path: the frames are taken in arrival order.
next_frame == Head(inbound)

\* Receive path, a correlated response: the slot is filled and removed.  The
\* acknowledgement of a subscribe request registers the caller's channel.
ReceiveResponse ==
    /\ dState = "Running" /\ ready /\ inbound # <<>>
    /\ next_frame.type = "response" /\ next_frame.id \in DOMAIN pending
    /\ LET f == next_frame
           slot == pending[f.id]
       IN /\ pending' = Remove(pending, f.id)
          /\ rstate' = [rstate EXCEPT ![f.id] = IF f.ok THEN "ok" ELSE "err"]
          /\ rdone' = [rdone EXCEPT ![f.id] = @ + 1]
          /\ IF slot.kind = "subscribe"
             THEN IF f.ok
                  THEN /\ subs' = register(slot.query, slot.handle)
                       /\ hstate' = [hstate EXCEPT ![slot.handle] = "open"]
                       /\ joinedAt' = [joinedAt EXCEPT ![slot.handle] = taken[slot.query]]
                  ELSE /\ hstate' = [hstate EXCEPT ![slot.handle] = "failed"]
                       /\ UNCHANGED <<subs, joinedAt>>
             ELSE UNCHANGED <<subs, hstate, joinedAt>>
    /\ inbound' = Tail(inbound)
    /\ UNCHANGED <<dState, fanout, nextId, hquery, hrecv,
                   answered, live, unsubSent, taken, pushed, atDrain, notDrv>>

\* Receive path, a response no slot is waiting for: dropped.
ReceiveUnmatched ==
    /\ dState = "Running" /\ ready /\ inbound # <<>>
    /\ next_frame.type = "response" /\ next_frame.id \notin DOMAIN pending
    /\ inbound' = Tail(inbound)
    /\ UNCHANGED <<dState, pending, subs, fanout, nextId, hstate, hquery, hrecv, rstate,
                   drvHistory, notDrv>>

\* Receive path, a pushed event: fanned out to the channels of its query's
\* entry, or dropped silently when there is no entry.
ReceiveEvent ==
    /\ dState = "Running" /\ ready /\ inbound # <<>>
    /\ next_frame.type = "event"
    /\ taken' = [taken EXCEPT ![next_frame.query] = next_frame.n]
    /\ fanout' = IF next_frame.query \in DOMAIN subs
                 THEN [ev |-> next_frame.n, query |-> next_frame.query,
                       targets |-> subs[next_frame.query].channels]
                 ELSE Idle
    /\ inbound' = Tail(inbound)
    /\ UNCHANGED <<dState, pending, subs, nextId, hstate, hquery, hrecv, rstate,
                   answered, live, unsubSent, pushed, joinedAt, rdone, atDrain, notDrv>>

\* Fan-out: the event is handed to one more channel of the entry.
Deliver(h) ==
    /\ h \in fanout.targets
    /\ hrecv' = [hrecv EXCEPT ![h] = Append(@, fanout.ev)]
    /\ fanout' = IF fanout.targets = {h} THEN Idle
                 ELSE [fanout EXCEPT !.targets = @ \ {h}]
    /\ UNCHANGED <<dState, pending, subs, inbound, nextId, hstate, hquery, rstate,
                   drvHistory, notDrv>>

\* Shutdown: transport failure or explicit close, Running -> Draining.
ConnectionFails ==
    /\ dState = "Running" /\ ready
    /\ dState' = "Draining"
    /\ atDrain' = [pending  |-> DOMAIN pending,
                   channels |-> UNION {subs[q].channels : q \in DOMAIN subs}]
    /\ inbound' = <<>>
    /\ UNCHANGED <<pending, subs, fanout, nextId, hstate, hquery, hrecv, rstate,
                   answered, live, unsubSent, taken, pushed, joinedAt, rdone, notDrv>>

\* Draining: one pending slot is failed with ConnectionClosed.
DrainPending(id) ==
    /\ dState = "Draining"
    /\ id \in DOMAIN pending
    /\ pending' = Remove(pending, id)
    /\ rstate' = [rstate EXCEPT ![id] = "closed"]
    /\ rdone' = [rdone EXCEPT ![id] = @ + 1]
    /\ hstate' = IF pending[id].kind = "subscribe"
                 THEN [hstate EXCEPT ![pending[id].handle] = "closed"]
                 ELSE hstate
    /\ UNCHANGED <<dState, subs, inbound, fanout, nextId, hquery, hrecv,
                   answered, live, unsubSent, taken, pushed, joinedAt, atDrain, notDrv>>

\* Draining: the delivery channels of one entry are closed and the entry goes.
DrainSubscription(q) ==
    /\ dState = "Draining"
    /\ q \in DOMAIN subs
    /\ hstate' = [h \in Handles |->
                    IF h \in subs[q].channels /\ hstate[h] = "open" THEN "ended" ELSE hstate[h]]
    /\ subs' = Remove(subs, q)
    /\ UNCHANGED <<dState, pending, inbound, fanout, nextId, hquery, hrecv, rstate,
                   drvHistory, notDrv>>

\* Draining -> Closed, once both tables are empty.
Close ==
    /\ dState = "Draining"
    /\ DOMAIN pending = {} /\ DOMAIN subs = {}
    /\ dState' = "Closed"
    /\ UNCHANGED <<pending, subs, inbound, fanout, nextId, hstate, hquery, hrecv, rstate,
                   drvHistory, notDrv>>

-----------------------------------------------------------------------------
(* Query, Condition, Operand and their Display implementations, query.rs.  *)
(* Text is a TLA+ string: \o concatenates, Len and SubSeq read it.         *)

\* Exploration bound of the Query model.
MaxConditions == 2    \* conditions in one Query

\* enum EventType { NewBlock, Tx }
EventTypes == {"EventType::NewBlock", "EventType::Tx"}

\* impl fmt::Display for EventType
EventType_to_string(t) ==
    CASE t = "EventType::NewBlock" -> "NewBlock"
      [] t = "EventType::Tx"       -> "Tx"

\* A plausible slip: only the quote escaped, the backslash left alone.
escape_QuoteOnly(s) ==
    LET RECURSIVE Body(_)
        Body(r) == IF r = "" THEN ""
                   ELSE (IF Head(r) = "'" THEN "\\" ELSE "") \o Head(r) \o Body(Tail(r))
    IN "'" \o Body(s) \o "'"

\* fn escape(s: &str) -> String
escape(s) ==
    LET RECURSIVE Body(_)
        Body(r) == IF r = "" THEN ""
                   ELSE (IF Head(r) = "\\" \/ Head(r) = "'" THEN "\\" ELSE "") \o Head(r) \o Body(Tail(r))
    IN "'" \o Body(s) \o "'"

\* Two decimal digits, as chrono's %m and %d write them.
TwoDigits(n) == IF n < 10 THEN "0" \o ToString(n) ELSE ToString(n)

\* enum Operand: the variant with its payload in the field of its type
\* (Float and DateTime operands are not explored).
String(s)      == [kind |-> "String",   text |-> s,  num |-> 0, date |-> <<0, 0, 0>>]
Signed(i)      == [kind |-> "Signed",   text |-> "", num |-> i, date |-> <<0, 0, 0>>]
Unsigned(u)    == [kind |-> "Unsigned", text |-> "", num |-> u, date |-> <<0, 0, 0>>]
Date(y, m, d)  == [kind |-> "Date",     text |-> "", num |-> 0, date |-> <<y, m, d>>]

\* impl fmt::Display for Operand
Operand_to_string(o) ==
    CASE o.kind = "String"   -> escape(o.text)
      [] o.kind = "Signed"   -> ToString(o.num)
      [] o.kind = "Unsigned" -> ToString(o.num)
      [] o.kind = "Date"     -> "DATE " \o ToString(o.date[1]) \o "-" \o TwoDigits(o.date[2])
                                        \o "-" \o TwoDigits(o.date[3])

\* impl fmt::Display for Condition
Condition_to_string(c) ==
    CASE c.op = "Eq"       -> c.key \o " = "  \o Operand_to_string(c.operand)
      [] c.op = "Lt"       -> c.key \o " < "  \o Operand_to_string(c.operand)
      [] c.op = "Lte"      -> c.key \o " <= " \o Operand_to_string(c.operand)
      [] c.op = "Gt"       -> c.key \o " > "  \o Operand_to_string(c.operand)
      [] c.op = "Gte"      -> c.key \o " >= " \o Operand_to_string(c.operand)
      [] c.op = "Contains" -> c.key \o " CONTAINS " \o escape(c.operand.text)
      [] c.op = "Exists"   -> c.key \o " EXISTS"

\* A plausible slip: the separator written after every item.
join_Trailing(separator, items) ==
    LET RECURSIVE Each(_)
        Each(r) == IF r = <<>> THEN "" ELSE Condition_to_string(Head(r)) \o separator \o Each(Tail(r))
    IN Each(items)

\* fn join(f, separator, iterable): the first item, then separator and item
\* for each of the others.
join(separator, items) ==
    LET RECURSIVE Others(_)
        Others(r) == IF r = <<>> THEN "" ELSE separator \o Condition_to_string(Head(r)) \o Others(Tail(r))
    IN IF items = <<>> THEN "" ELSE Condition_to_string(Head(items)) \o Others(Tail(items))

\* impl fmt::Display for Query
Query_to_string(q) ==
    (IF q.event_type # None
     THEN "tm.event = '" \o EventType_to_string(Unwrap(q.event_type)) \o "'"
          \o (IF q.conditions # <<>> THEN " AND " ELSE "")
     ELSE "")
    \o join(" AND ", q.conditions)

\* impl Default for Query
Query_default == [event_type |-> None, conditions |-> <<>>]

\* impl From<EventType> for Query
Query_from(t) == [event_type |-> Some(t), conditions |-> <<>>]

\* Query::eq, lt, lte, gt, gte, contains, exists: a Query of one condition
Query_of(c) == [event_type |-> None, conditions |-> <<c>>]

\* Query::and_eq, and_lt, and_lte, and_gt, and_gte, and_contains, and_exists:
\* self.conditions.push(condition)
and_condition(q, c) == [q EXCEPT !.conditions = Append(@, c)]

\* The operands and conditions the callers build queries from.
InputOperands == {String("AddrA"), String("it's"), Signed(-3), Unsigned(100), Date(2020, 9, 24)}
InputKeys == {"tx.height", "transfer.sender"}
InputConditions ==
    [op : {"Eq", "Lte"}, key : InputKeys, operand : InputOperands]
    \cup [op : {"Lt", "Gt", "Gte"}, key : {"tx.height"}, operand : {Unsigned(100)}]
    \cup [op : {"Contains"}, key : {"meta.attr"}, operand : {String("some-substring"), String("a\\b")}]
    \cup { [op |-> "Exists", key |-> "tx.hash", operand |-> String("")] }

QueryIdle == query = Query_default /\ qPrev = None /\ qRendered = None

\* A fresh Query from a constructor other than Default.
QueryNew ==
    /\ query = Query_default /\ qPrev = None
    /\ \/ \E t \in EventTypes : query' = Query_from(t)
       \/ \E c \in InputConditions : query' = Query_of(c)
    /\ qRendered' = None
    /\ UNCHANGED <<qPrev, notQuery>>

\* One and_* call on the Query.
QueryAnd ==
    /\ Len(query.conditions) < MaxConditions
    /\ \E c \in InputConditions : query' = and_condition(query, c)
    /\ qPrev' = Some(query)
    /\ qRendered' = None
    /\ UNCHANGED notQuery

\* query.to_string()
QueryRender ==
    /\ qRendered = None
    /\ qRendered' = Some(Query_to_string(query))
    /\ UNCHANGED <<query, qPrev, notQuery>>

-----------------------------------------------------------------------------
(* Strings handed to escape, and texts handed to EventType::from_str.      *)

\* Exploration bounds of the two models.
MaxTextLen == 3    \* characters in an escaped string
MaxNameLen == 3    \* characters in a free event-type text

\* Every text of exactly n characters over an alphabet.
RECURSIVE TextsOfLen(_, _)
TextsOfLen(alphabet, n) ==
    IF n = 0 THEN {""}
    ELSE {t \o ch : t \in TextsOfLen(alphabet, n - 1), ch \in alphabet}

\* The strings escaped: plain characters, backslashes and single quotes.
Texts == UNION {TextsOfLen({"a", "b", "\\", "'"}, n) : n \in 0..MaxTextLen}

EscIdle == sIn = "" /\ sUse = "-" /\ sOut = None

\* Operand::String(s).to_string()
EscapeOperand ==
    /\ \E s \in Texts :
          /\ sIn' = s
          /\ sOut' = Some(Operand_to_string(String(s)))
    /\ sUse' = "operand"
    /\ UNCHANGED notEsc

\* Condition::Contains(key, s).to_string()
EscapeContains ==
    /\ \E s \in Texts :
          /\ sIn' = s
          /\ sOut' = Some(Condition_to_string([op |-> "Contains", key |-> "meta.attr",
                                               operand |-> String(s)]))
    /\ sUse' = "contains"
    /\ UNCHANGED notEsc

\* Error::invalid_params(msg)
invalid_params(msg) == [code |-> "InvalidParams", message |-> msg]

\* Leading and trailing spaces removed.
RECURSIVE Trim(_)
Trim(s) ==
    IF s = "" THEN ""
    ELSE IF Head(s) = " " THEN Trim(Tail(s))
    ELSE IF SubSeq(s, Len(s), Len(s)) = " " THEN Trim(SubSeq(s, 1, Len(s) - 1))
    ELSE s

\* A plausible slip: the text trimmed before it is matched.
from_str_Trimmed(s) ==
    CASE Trim(s) = "NewBlock" -> Ok("EventType::NewBlock")
      [] Trim(s) = "Tx"       -> Ok("EventType::Tx")
      [] OTHER                -> Err(invalid_params("unrecognized event type: " \o s))

\* impl FromStr for EventType
from_str(s) ==
    CASE s = "NewBlock" -> Ok("EventType::NewBlock")
      [] s = "Tx"       -> Ok("EventType::Tx")
      [] OTHER          -> Err(invalid_params("unrecognized event type: " \o s))

\* The texts parsed: everything short over the letters of "Tx" in both cases
\* and the space, and variations of "NewBlock".
Names ==
    UNION {TextsOfLen({"T", "t", "X", "x", " "}, n) : n \in 0..MaxNameLen}
    \cup {"NewBlock", "newblock", "NEWBLOCK", "NewBlock ", " NewBlock", "New Block",
          "NewBloc", "NewBlockTx", "Bogus"}

EtIdle == etIn = "" /\ etOf = None /\ etOut = None

\* EventType::from_str(s) on a free text
ParseText ==
    /\ \E s \in Names :
          /\ etIn' = s
          /\ etOut' = Some(from_str(s))
    /\ etOf' = None
    /\ UNCHANGED notEt

\* EventType::from_str(&t.to_string())
ParseRendered ==
    /\ \E t \in EventTypes :
          /\ etOf' = Some(t)
          /\ etIn' = EventType_to_string(t)
          /\ etOut' = Some(from_str(EventType_to_string(t)))
    /\ UNCHANGED notEt

-----------------------------------------------------------------------------
(* Specifications, one per component.                                      *)

EnvelopeInit == EnvInit /\ ValIdle /\ HealthIdle /\ DrvIdle /\ QueryIdle /\ EscIdle /\ EtIdle
EnvelopeNext == Decode \/ NextFrame
EnvelopeSpec == EnvelopeInit /\ [][EnvelopeNext]_vars

ValidatorsInit == EnvIdle /\ ValIdle /\ HealthIdle /\ DrvIdle /\ QueryIdle /\ EscIdle /\ EtIdle
ValidatorsNext == ValStart \/ ValPageOk \/ ValPageErr
ValidatorsSpec == ValidatorsInit /\ [][ValidatorsNext]_vars

HealthInit == EnvIdle /\ ValIdle /\ HealthIdle /\ DrvIdle /\ QueryIdle /\ EscIdle /\ EtIdle
HealthNext == HealthStart \/ HealthProbeOk \/ HealthProbeErr \/ HealthSleep
HealthSpec == HealthInit /\ [][HealthNext]_vars

DriverInit == EnvIdle /\ ValIdle /\ HealthIdle /\ DrvIdle /\ QueryIdle /\ EscIdle /\ EtIdle
DriverNext ==
    \/ Connect
    \/ Send
    \/ \E h \in Handles, q \in Queries : SubscribeFirst(h, q)
    \/ \E h \in Handles, q \in Queries : SubscribeShared(h, q)
    \/ Refuse
    \/ \E h \in Handles : Drop(h)
    \/ \E h \in Handles : DropAfterShutdown(h)
    \/ \E id \in ReqIds : Abandon(id)
    \/ \E id \in ReqIds, ok \in BOOLEAN : PeerRespond(id, ok)
    \/ \E q \in Queries : PeerPush(q)
    \/ ReceiveResponse
    \/ ReceiveUnmatched
    \/ ReceiveEvent
    \/ \E h \in Handles : Deliver(h)
    \/ ConnectionFails
    \/ \E id \in ReqIds : DrainPending(id)
    \/ \E q \in Queries : DrainSubscription(q)
    \/ Close
DriverSpec == DriverInit /\ [][DriverNext]_vars

QueryInit == EnvIdle /\ ValIdle /\ HealthIdle /\ DrvIdle /\ QueryIdle /\ EscIdle /\ EtIdle
QueryNext == QueryNew \/ QueryAnd \/ QueryRender
QuerySpec == QueryInit /\ [][QueryNext]_vars

EscapeInit == EnvIdle /\ ValIdle /\ HealthIdle /\ DrvIdle /\ QueryIdle /\ EscIdle /\ EtIdle
EscapeNext == EscapeOperand \/ EscapeContains
EscapeSpec == EscapeInit /\ [][EscapeNext]_vars

EventTypeInit == EnvIdle /\ ValIdle /\ HealthIdle /\ DrvIdle /\ QueryIdle /\ EscIdle /\ EtIdle
EventTypeNext == ParseText \/ ParseRendered
EventTypeSpec == EventTypeInit /\ [][EventTypeNext]_vars

-----------------------------------------------------------------------------
(* The envelope's claims, under EnvelopeSpec.                              *)

\* The frame has been decoded and parsed as an envelope.
DecodedEnvelope == decoded # NotDecoded /\ frame.json
Supported == frame.jsonrpc \in SupportedVersions
UnsupportedVersionError == Err([code |-> "ServerError", message |-> "server RPC version unsupported"])

\* C1 as stated: for an envelope of a supported version, decoding returns the
\* result whenever a result is present (also when an error is present too), and
\* returns the carried error only when result is absent and error is present.
C1_ResultTakesPrecedence ==
    (DecodedEnvelope /\ Supported) =>
        /\ (frame.result # None => decoded = Ok(Unwrap(frame.result)))
        /\ (decoded.tag = "Err" /\ decoded.err \in frame.error => frame.result = None)

\* C1 amended: for an envelope of a supported version, decoding returns the
\* carried error whenever an error is present (also when a result is present
\* too), and returns the result only when error is absent and result is present.
C1_ErrorTakesPrecedence ==
    (DecodedEnvelope /\ Supported) =>
        /\ (frame.error # None => decoded = Err(Unwrap(frame.error)))
        /\ (decoded.tag = "Ok" => frame.error = None /\ frame.result = Some(decoded.val))
        /\ (frame.error = None /\ frame.result # None => decoded = Ok(Unwrap(frame.result)))

\* C1 witness: a supported envelope carrying both fields was decoded to its error.
C1_Witness ==
    /\ DecodedEnvelope /\ Supported
    /\ frame.result # None /\ frame.error # None
    /\ decoded = Err(Unwrap(frame.error))

\* C3: an envelope of an unsupported version is rejected with the version
\* error whatever its result and error fields hold: never its result, never
\* its carried error.
C3_UnsupportedVersionRejected ==
    (DecodedEnvelope /\ ~Supported) =>
        /\ decoded = UnsupportedVersionError
        /\ decoded.tag # "Ok"
        /\ decoded.err \notin frame.error

\* C3 witness: an unsupported-version envelope carrying both a result and an
\* error was decoded.
C3_Witness ==
    /\ DecodedEnvelope /\ ~Supported
    /\ frame.result # None /\ frame.error # None
    /\ decoded = UnsupportedVersionError

\* C10: a supported-version envelope with neither result nor error decodes to
\* a ServerError (malformed wrapper), never to Ok.
C10_NeitherFieldIsServerError ==
    (DecodedEnvelope /\ Supported /\ frame.result = None /\ frame.error = None) =>
        /\ decoded.tag = "Err"
        /\ decoded.err.code = "ServerError"
        /\ decoded.err.message = "server returned malformatted JSON (no 'result' or 'error')"

\* C10 witness: such an envelope was decoded.
C10_Witness ==
    /\ DecodedEnvelope /\ Supported
    /\ frame.result = None /\ frame.error = None
    /\ decoded.tag = "Err"

-----------------------------------------------------------------------------
(* The Driver's claims, under DriverSpec.                                  *)

\* C2 as stated: for every canonical query string, the subscribe requests on
\* the wire not yet followed by an unsubscribe request for that string (and
\* not rejected by the peer) are never more than one, under any interleaving
\* of subscribe and drop operations.
C2_AtMostOneServerSubscription == \A q \in Queries : Cardinality(live[q]) <= 1

\* A step in which the running Driver handles the drop of handle h, the only
\* channel of its query's entry.
LastDrop(h) ==
    /\ dState = "Running"
    /\ hstate[h] = "open" /\ hstate'[h] = "dropped"
    /\ hquery[h] \in DOMAIN subs
    /\ subs[hquery[h]].channels = {h}

\* A step in which the Driver takes a pushed event of q off the wire while q
\* has no entry.
OrphanEvent(q) == taken'[q] # taken[q] /\ q \notin DOMAIN subs

C5_Order == { <<"Connecting", "Running">>, <<"Running", "Draining">>, <<"Draining", "Closed">> }

\* C5: the Driver goes Running -> Draining -> Closed; once Closed, every
\* request that was pending when Draining began has been failed with
\* ConnectionClosed exactly once and every delivery channel open at that moment
\* has been closed; from the moment Draining begins neither table gains an
\* entry or a channel and no request id is issued, so both tables are empty in
\* Closed and stay empty.
C5_Shutdown ==
    /\ [](/\ \A id \in ReqIds : rdone[id] <= 1
          /\ \A id \in ReqIds : rstate[id] = "closed" => id \in atDrain.pending
          /\ dState \in {"Connecting", "Running"} => atDrain = [pending |-> {}, channels |-> {}]
          /\ dState = "Closed" =>
                /\ DOMAIN pending = {} /\ DOMAIN subs = {}
                /\ \A id \in atDrain.pending : rstate[id] = "closed" /\ rdone[id] = 1
                /\ \A h \in atDrain.channels : hstate[h] \in {"ended", "dropped"}
                /\ \A h \in Handles : hstate[h] \notin {"open", "subscribing"})
    /\ [][ /\ dState' # dState => <<dState, dState'>> \in C5_Order
           /\ dState \in {"Draining", "Closed"} =>
                /\ DOMAIN pending' \subseteq DOMAIN pending
                /\ DOMAIN subs' \subseteq DOMAIN subs
                /\ \A q \in DOMAIN subs' : subs'[q] = subs[q]
                /\ nextId' = nextId
                /\ \A h \in Handles : hstate'[h] \in {"open", "subscribing"} => hstate'[h] = hstate[h]
         ]_vars

\* C5 witness: the Driver is Closed after a shutdown that found a pending
\* request and an open subscription.
C5_Witness ==
    /\ dState = "Closed"
    /\ atDrain.pending # {} /\ atDrain.channels # {}
    /\ \A id \in atDrain.pending : rstate[id] = "closed"
    /\ \E h \in atDrain.channels : hstate[h] = "ended"

\* The events handle h was handed.
Received(h) == {hrecv[h][i] : i \in DOMAIN hrecv[h]}

\* C6: every listener is handed the events of its query in arrival order with
\* no gap, duplicate or reordering, from the first event taken after it was
\* registered up to the last one taken; and when a listener has been handed
\* event N+1, every listener registered before event N was taken has been
\* handed event N.
C6_FanOutOrder ==
    /\ \A h \in Handles : \A i \in DOMAIN hrecv[h] : hrecv[h][i] = joinedAt[h] + i
    /\ \A h \in Handles :
         (hstate[h] = "open" /\ dState = "Running") =>
            Len(hrecv[h]) = taken[hquery[h]] - joinedAt[h] - (IF h \in fanout.targets THEN 1 ELSE 0)
    /\ \A h1, h2 \in Handles :
         (hstate[h1] = "open" /\ hstate[h2] = "open" /\ hquery[h1] = hquery[h2] /\ dState = "Running") =>
            \A n \in Received(h1) : (n - 1 > joinedAt[h2]) => (n - 1) \in Received(h2)

\* C6 witness: two listeners of one query have both been handed events 1, 2.
C6_Witness ==
    \E h1, h2 \in Handles :
        /\ h1 # h2 /\ hstate[h1] = "open" /\ hstate[h2] = "open"
        /\ hquery[h1] = hquery[h2]
        /\ hrecv[h1] = <<1, 2>> /\ hrecv[h2] = <<1, 2>>

-----------------------------------------------------------------------------
(* Client::validators' claims, under ValidatorsSpec.                       *)

RECURSIVE Flatten(_)
\* The validators of a sequence of responses, concatenated in order.
Flatten(rs) == IF rs = <<>> THEN <<>> ELSE Flatten(SubSeq(rs, 1, Len(rs) - 1)) \o rs[Len(rs)].validators

\* The number of validators received in the first k responses.
CountThrough(k) == Len(Flatten(SubSeq(vResponses, 1, k)))

LastResponse == vResponses[Len(vResponses)]

\* C7: Paging::All requests pages 1, 2, 3, ... in order with the default page
\* size, accumulates each page, returns as soon as the accumulated count equals
\* the total of the page just received, with the concatenation of all pages and
\* the block height and total of the last response; a failed page request
\* returns that error and no partial list.
C7_FetchAllPages ==
    /\ \A i \in 1..Len(vRequests) :
         vRequests[i] = [height |-> vHeight, page |-> i, per_page |-> DEFAULT_VALIDATORS_PER_PAGE]
    /\ validators = Flatten(vResponses)
    /\ \A k \in 1..(Len(vResponses) - 1) : CountThrough(k) # vResponses[k].total
    /\ vPc = "loop" =>
         /\ Len(vRequests) = Len(vResponses)
         /\ page_num = Len(vRequests) + 1
         /\ vResponses # <<>> => Len(validators) # LastResponse.total
         /\ vRet = NotDecoded
    /\ (vPc = "returned" /\ vFailure = None) =>
         /\ Len(vRequests) = Len(vResponses)
         /\ Len(Flatten(vResponses)) = LastResponse.total
         /\ vRet = Ok([block_height |-> LastResponse.block_height,
                       validators   |-> Flatten(vResponses),
                       total        |-> LastResponse.total])
    /\ (vPc = "returned" /\ vFailure # None) =>
         /\ Len(vRequests) = Len(vResponses) + 1
         /\ vRet = Err(Unwrap(vFailure))
         /\ vRet.val = "-"

\* C7 witness: the call returned Ok after three non-empty pages.
C7_Witness ==
    /\ vPc = "returned" /\ vRet.tag = "Ok"
    /\ Len(vResponses) = 3
    /\ \A i \in 1..3 : vResponses[i].validators # <<>>
    /\ vRet.val.validators = <<"va", "vb", "va">>

\* The largest number of page requests a capped loop would make within the
\* explored pages.
IterationCap == MaxPages - 1

\* C8 as stated: whatever the server answers, the number of page requests is
\* bounded by a cap, so the call returns even when the accumulated count never
\* equals the reported total.
C8_PageRequestsCapped == Len(vRequests) <= IterationCap

-----------------------------------------------------------------------------
(* Client::wait_until_healthy's claims, under HealthSpec.                  *)

\* C9 as stated: the timeout failure is returned only after at least `timeout`
\* ms have passed since the call began, for every timeout value.
C9_TimeoutOnlyAfterDeadline == hPc = "timed_out" => elapsed >= timeout


-----------------------------------------------------------------------------
(* Query rendering.                                                        *)

\* The clauses of a Query: the event-type clause when an event type is set,
\* then one clause per condition in insertion order.
Clauses(q) ==
    (IF q.event_type # None
     THEN << "tm.event = '" \o EventType_to_string(Unwrap(q.event_type)) \o "'" >>
     ELSE << >>)
    \o [i \in 1..Len(q.conditions) |-> Condition_to_string(q.conditions[i])]

\* The clauses with " AND " exactly between adjacent ones.
RECURSIVE Between(_)
Between(cl) ==
    IF cl = << >> THEN ""
    ELSE IF Len(cl) = 1 THEN cl[1]
    ELSE Between(SubSeq(cl, 1, Len(cl) - 1)) \o " AND " \o cl[Len(cl)]

StartsWith(t, pre) == Len(t) >= Len(pre) /\ SubSeq(t, 1, Len(pre)) = pre
EndsWith(t, suf)   == Len(t) >= Len(suf) /\ SubSeq(t, Len(t) - Len(suf) + 1, Len(t)) = suf

\* C11: the rendering of a Query is its event-type clause (when set) and its
\* conditions in insertion order with " AND " exactly between adjacent
\* clauses and never first or last; the empty Query renders to "", a Query
\* of an event type alone to that clause alone; an and_* call keeps the event
\* type and the earlier conditions and appends one condition at the end.
C11_CanonicalRendering ==
    /\ qRendered # None =>
          LET r == Unwrap(qRendered) IN
          /\ r = Between(Clauses(query))
          /\ ~StartsWith(r, " AND ") /\ ~EndsWith(r, " AND ")
          /\ query = Query_default => r = ""
          /\ query = Query_from("EventType::NewBlock") => r = "tm.event = 'NewBlock'"
          /\ query = Query_from("EventType::Tx") => r = "tm.event = 'Tx'"
          /\ qPrev # None =>
                LET before == Query_to_string(Unwrap(qPrev))
                    added  == Condition_to_string(query.conditions[Len(query.conditions)])
                IN r = IF before = "" THEN added ELSE before \o " AND " \o added
    /\ qPrev # None =>
          /\ query.event_type = Unwrap(qPrev).event_type
          /\ Len(query.conditions) = Len(Unwrap(qPrev).conditions) + 1
          /\ SubSeq(query.conditions, 1, Len(query.conditions) - 1) = Unwrap(qPrev).conditions

\* An event type and two conditions added by and_* calls, rendered.
C11_Witness ==
    /\ qPrev # None
    /\ qRendered = Some("tm.event = 'Tx' AND tx.height <= 100 AND transfer.sender = 'it\\'s'")


-----------------------------------------------------------------------------
(* Escaping.                                                               *)

\* The part of the rendering that stands for the string: all of an operand's
\* rendering, what follows "<key> CONTAINS " in a Contains condition's.
Quoted ==
    LET r   == Unwrap(sOut)
        pre == "meta.attr CONTAINS "
    IN IF sUse = "contains" THEN SubSeq(r, Len(pre) + 1, Len(r)) ELSE r

\* body is the characters of s in order, each backslash and each single
\* quote preceded by one added backslash, every other character as it is.
RECURSIVE WellEscaped(_, _)
WellEscaped(body, s) ==
    IF s = "" THEN body = ""
    ELSE IF Head(s) = "\\" \/ Head(s) = "'"
         THEN /\ Len(body) >= 2
              /\ SubSeq(body, 1, 1) = "\\"
              /\ SubSeq(body, 2, 2) = Head(s)
              /\ WellEscaped(SubSeq(body, 3, Len(body)), Tail(s))
         ELSE /\ Len(body) >= 1
              /\ SubSeq(body, 1, 1) = Head(s)
              /\ WellEscaped(SubSeq(body, 2, Len(body)), Tail(s))

\* The added backslashes removed: a backslash is dropped and the character
\* after it kept.
RECURSIVE Unescape(_)
Unescape(body) ==
    IF body = "" THEN ""
    ELSE IF Head(body) = "\\" /\ Len(body) >= 2
         THEN SubSeq(body, 2, 2) \o Unescape(SubSeq(body, 3, Len(body)))
         ELSE Head(body) \o Unescape(Tail(body))

\* C12: a string used as a String operand or a Contains substring renders as
\* a single quote, its characters in order with each backslash and each
\* single quote preceded by exactly one added backslash and every other
\* character unchanged, and a single quote; every input has a rendering;
\* dropping the outer quotes and the added backslashes gives the string back,
\* so no other string has the same rendering.
C12_EscapeQuotesAndRoundTrips ==
    sOut # None =>
        LET r    == Quoted
            body == SubSeq(r, 2, Len(r) - 1)
        IN /\ sUse = "contains" => StartsWith(Unwrap(sOut), "meta.attr CONTAINS ")
           /\ Len(r) >= 2
           /\ SubSeq(r, 1, 1) = "'" /\ SubSeq(r, Len(r), Len(r)) = "'"
           /\ WellEscaped(body, sIn)
           /\ Unescape(body) = sIn
           /\ \A t \in Texts : escape(t) = r => t = sIn

\* A string of a backslash, a quote and a plain character, escaped in both uses.
C12_Witness ==
    /\ sIn = "\\'a"
    /\ \/ sUse = "operand"  /\ sOut = Some("'\\\\\\'a'")
       \/ sUse = "contains" /\ sOut = Some("meta.attr CONTAINS '\\\\\\'a'")


-----------------------------------------------------------------------------
(* Parsing an event type.                                                  *)

\* part occurs somewhere in text.
Contains(text, part) ==
    \E i \in 1..(Len(text) - Len(part) + 1) : SubSeq(text, i, i + Len(part) - 1) = part

\* C13: EventType::from_str succeeds for exactly the texts "NewBlock" and
\* "Tx", as written, and returns the variant of that name, so parsing the
\* rendering of a variant gives the variant back; every other text fails with
\* an InvalidParams error whose message contains the text.
C13_FromStrExactLiterals ==
    etOut # None =>
        LET res == Unwrap(etOut) IN
        /\ res.tag = "Ok" <=> etIn \in {"NewBlock", "Tx"}
        /\ etIn = "NewBlock" => res = Ok("EventType::NewBlock")
        /\ etIn = "Tx" => res = Ok("EventType::Tx")
        /\ etOf # None => res = Ok(Unwrap(etOf))
        /\ res.tag # "Ok" =>
              /\ res.tag = "Err"
              /\ res.err.code = "InvalidParams"
              /\ Contains(res.err.message, etIn)

\* "Tx" with a space in front is refused, and the error names it.
C13_Witness ==
    /\ etIn = " Tx"
    /\ etOut = Some(Err(invalid_params("unrecognized event type:  Tx")))


-----------------------------------------------------------------------------
(* The number of probes and sleeps of wait_until_healthy.                  *)

\* n = floor(timeout_ms / 200): the n with 200 n <= timeout_ms < 200 (n + 1).
FloorAttempts ==
    CHOOSE n \in 0..timeout : 200 * n <= timeout /\ timeout < 200 * (n + 1)

=============================================================================
